---------------------------- MODULE Spec2Model ----------------------------
(***************************************************************************)
(* A model of gatonaranja (src/main.go): the span and command parsers, the *)
(* access policy, and the download/cut pipeline driven by the main loop.   *)
(*                                                                         *)
(* A Go string is a sequence of one-character strings, so splitting,       *)
(* pattern matching, number parsing and extension rewriting are computed   *)
(* character by character as the code computes them.                       *)
(***************************************************************************)
EXTENDS Integers, Sequences, FiniteSets, TLC

VARIABLES
    pc,                 \* position of the running function / of main's loop
    span,               \* argument of ParseStartEndSeconds
    spanRet,            \* what ParseStartEndSeconds returned
    msg,                \* update.Message.Text, argument of LoadDownloadConfigFromMsg
    cmdRet,             \* what LoadDownloadConfigFromMsg returned
    userId,             \* update.Message.From.ID
    authorizedUserIds,  \* the allow-list loaded at start (main.go:265)
    authRet,            \* what UserIsAuthorized returned
    nreq,               \* updates taken from the channel so far
    fs,                 \* files present in the temp directory
    plans,              \* output filenames BuildYtdlpCmd has returned, in order
    videoFilename,      \* DownloadVideo's local videoFilename
    planned,            \* BuildYtdlpCmd returned without error in this run
    downloaded,         \* downloadCmd.Run() returned nil in this run
    dlCalls,            \* runs of the downloader subprocess in this run
    cutCalls,           \* runs of the cutter subprocess in this run
    cutArgs,            \* argument list of the last cutter subprocess
    ytdlpArgs,          \* argument list BuildYtdlpCmd built for the downloader
    ret                 \* what DownloadVideo returned

vars == <<pc, span, spanRet, msg, cmdRet, userId, authorizedUserIds, authRet,
          nreq, fs, plans, videoFilename, planned, downloaded, dlCalls,
          cutCalls, cutArgs, ytdlpArgs, ret>>

----------------------------------------------------------------------------
(* Strings *)

DigitChars == <<"0", "1", "2", "3", "4", "5", "6", "7", "8", "9">>

IsDigit(c) == \E i \in 1..10 : DigitChars[i] = c

DigitVal(c) == (CHOOSE i \in 1..10 : DigitChars[i] = c) - 1

\* fmt.Sprint of a non-negative int: its decimal digits.
RECURSIVE Sprint(_)
Sprint(n) ==
    IF n < 10 THEN <<DigitChars[n + 1]>>
    ELSE Sprint(n \div 10) \o <<DigitChars[(n % 10) + 1]>>

\* strings.Split(s, sep) for a one-character separator; Split("", sep) = [""].
RECURSIVE Split(_, _)
Split(s, sep) ==
    IF \A i \in 1..Len(s) : s[i] # sep THEN <<s>>
    ELSE LET k == CHOOSE i \in 1..Len(s) :
                      s[i] = sep /\ \A j \in 1..(i - 1) : s[j] # sep
         IN  <<SubSeq(s, 1, k - 1)>> \o Split(SubSeq(s, k + 1, Len(s)), sep)

RECURSIVE Join(_, _)
Join(parts, sep) ==
    IF Len(parts) = 0 THEN <<>>
    ELSE IF Len(parts) = 1 THEN parts[1]
    ELSE parts[1] \o <<sep>> \o Join(Tail(parts), sep)

RECURSIVE DigitsValue(_)
DigitsValue(t) ==
    IF Len(t) = 0 THEN 0
    ELSE DigitsValue(SubSeq(t, 1, Len(t) - 1)) * 10 + DigitVal(t[Len(t)])

\* strconv.Atoi: an optional sign, then one or more decimal digits. (The
\* range error needs 19 digits or more, beyond any text of this model.)
Atoi(t) ==
    LET signed == Len(t) > 0 /\ t[1] \in {"+", "-"}
        body   == IF signed THEN Tail(t) ELSE t
        ok     == Len(body) > 0 /\ \A i \in 1..Len(body) : IsDigit(body[i])
    IN  IF ~ok THEN [err |-> TRUE, val |-> 0]
        ELSE [err |-> FALSE,
              val |-> IF signed /\ t[1] = "-" THEN 0 - DigitsValue(body)
                      ELSE DigitsValue(body)]

UpperChars == <<"A", "U", "D", "I", "O">>
LowerChars == <<"a", "u", "d", "i", "o">>

\* strings.ToLower, over the letters the model's texts are written in.
ToLower(s) ==
    [i \in 1..Len(s) |->
        IF \E k \in 1..5 : UpperChars[k] = s[i]
        THEN LowerChars[CHOOSE k \in 1..5 : UpperChars[k] = s[i]]
        ELSE s[i]]

----------------------------------------------------------------------------
(* TimeSpanParser *)

InvalidVideoSecond == -1

\* One [\d]{1,2} of VideoStartEndPattern.
IsSegment(t) == Len(t) \in {1, 2} /\ \A i \in 1..Len(t) : IsDigit(t[i])

\* ([\d]{1,2}:)?[\d]{1,2}:[\d]{1,2}
IsSpotPattern(t) ==
    LET p == Split(t, ":")
    IN  Len(p) \in {2, 3} /\ \A i \in 1..Len(p) : IsSegment(p[i])

\* The whole of t is one match of VideoStartEndPattern.
IsSpanPattern(t) ==
    \E k \in 1..Len(t) :
        /\ t[k] = "-"
        /\ IsSpotPattern(SubSeq(t, 1, k - 1))
        /\ IsSpotPattern(SubSeq(t, k + 1, Len(t)))

\* VideoStartEndPattern.MatchString: the pattern has no ^ or $, so some
\* substring of s has to match.
MatchString(s) ==
    \E i \in 1..Len(s) : \E j \in i..Len(s) : IsSpanPattern(SubSeq(s, i, j))

\* Spot2Second with the minutes and seconds indexes exchanged: a fault seeded
\* to show that C4_MinutesSeconds depends on which segment is which.
Spot2SecondSwapped(spot) ==
    LET parts    == Split(spot, ":")
        partsLen == Len(parts)
        fail     == [err |-> TRUE, val |-> 0]
    IN  IF partsLen < 2 THEN fail
        ELSE
        LET seconds == Atoi(parts[1])
            minutes == Atoi(parts[2])
        IN  IF seconds.err \/ minutes.err THEN fail
            ELSE IF seconds.val > 59 \/ minutes.val > 59 THEN fail
            ELSE IF partsLen = 3
            THEN LET hours == Atoi(parts[3])
                 IN  IF hours.err \/ hours.val > 11 THEN fail
                     ELSE [err |-> FALSE,
                           val |-> seconds.val + minutes.val * 60
                                       + hours.val * 60 * 60]
            ELSE [err |-> FALSE, val |-> seconds.val + minutes.val * 60]

Spot2Second(spot) ==
    LET parts    == Split(spot, ":")
        partsLen == Len(parts)
        fail     == [err |-> TRUE, val |-> 0]
    IN  IF partsLen < 2 THEN fail
        ELSE
        LET seconds == Atoi(parts[2])
            minutes == Atoi(parts[1])
        IN  IF seconds.err THEN fail
            ELSE IF seconds.val > 59 THEN fail
            ELSE IF minutes.err THEN fail
            ELSE IF minutes.val > 59 THEN fail
            ELSE
            LET second == seconds.val + minutes.val * 60
            IN  IF partsLen = 3
                THEN LET hours == Atoi(parts[3])
                     IN  IF hours.err THEN fail
                         ELSE IF hours.val > 11 THEN fail
                         ELSE [err |-> FALSE,
                               val |-> second + hours.val * 60 * 60]
                ELSE [err |-> FALSE, val |-> second]

\* ParseStartEndSeconds comparing with > where the code has >=: a fault
\* seeded to show that C5_StartBeforeEnd depends on the comparison.
ParseStartEndSecondsGt(s) ==
    LET fail == [err |-> TRUE, startSecond |-> 0, endSecond |-> 0]
    IN  IF ~MatchString(s) THEN fail
        ELSE
        LET parts == Split(s, "-")
        IN  IF Len(parts) # 2 THEN fail
            ELSE
            LET startSecond == Spot2Second(parts[1])
                endSecond   == Spot2Second(parts[2])
            IN  IF startSecond.err \/ endSecond.err THEN fail
                ELSE IF startSecond.val > endSecond.val THEN fail
                ELSE [err |-> FALSE, startSecond |-> startSecond.val,
                      endSecond |-> endSecond.val]

ParseStartEndSeconds(s) ==
    LET fail == [err |-> TRUE, startSecond |-> 0, endSecond |-> 0]
    IN  IF ~MatchString(s) THEN fail
        ELSE
        LET parts == Split(s, "-")
        IN  IF Len(parts) # 2 THEN fail
            ELSE
            LET startSecond == Spot2Second(parts[1])
                endSecond   == Spot2Second(parts[2])
            IN  IF startSecond.err THEN fail
                ELSE IF endSecond.err THEN fail
                ELSE IF startSecond.val >= endSecond.val THEN fail
                ELSE [err |-> FALSE, startSecond |-> startSecond.val,
                      endSecond |-> endSecond.val]

----------------------------------------------------------------------------
(* CommandParser *)

Letters == {"a", "u", "d", "i", "o", "A", "U", "D", "I", "O", "h", "x"}

\* net/url getScheme: the index of the ':' ending a scheme, 0 when the text
\* has no scheme, -1 for "missing protocol scheme".
RECURSIVE SchemeEnd(_, _)
SchemeEnd(rawURL, i) ==
    IF i > Len(rawURL) THEN 0
    ELSE IF rawURL[i] \in Letters THEN SchemeEnd(rawURL, i + 1)
    ELSE IF IsDigit(rawURL[i]) \/ rawURL[i] \in {"+", "-", "."}
         THEN IF i = 1 THEN 0 ELSE SchemeEnd(rawURL, i + 1)
    ELSE IF rawURL[i] = ":" THEN IF i = 1 THEN -1 ELSE i
    ELSE 0

EmptyURL == [Scheme |-> <<>>, Rest |-> <<>>]

\* url.Parse on texts without '%', '?', '#', "//" or control characters:
\* what is left of it is getScheme and the rule that the first path segment
\* of a scheme-less URL holds no colon.
UrlParse(rawURL) ==
    LET k      == SchemeEnd(rawURL, 1)
        scheme == IF k > 0 THEN SubSeq(rawURL, 1, k - 1) ELSE <<>>
        rest   == IF k > 0 THEN SubSeq(rawURL, k + 1, Len(rawURL)) ELSE rawURL
        first  == Split(rest, "/")[1]
    IN  IF k = -1 THEN [err |-> TRUE, url |-> EmptyURL]
        ELSE IF /\ ~(Len(rest) > 0 /\ rest[1] = "/")
                /\ scheme = <<>>
                /\ \E i \in 1..Len(first) : first[i] = ":"
             THEN [err |-> TRUE, url |-> EmptyURL]
        ELSE [err |-> FALSE,
              url |-> [Scheme |-> ToLower(scheme), Rest |-> rest]]

AudioWord == <<"a", "u", "d", "i", "o">>

\* The error return carrying the zero seconds of a failed span parse instead
\* of InvalidVideoSecond: a fault seeded to show that C9_WellFormedRequest
\* depends on the values of the error returns.
CmdFailZero ==
    [url |-> EmptyURL, startSecond |-> 0, endSecond |-> 0,
     audioOnly |-> FALSE, err |-> TRUE]

CmdFail ==
    [url |-> EmptyURL, startSecond |-> InvalidVideoSecond,
     endSecond |-> InvalidVideoSecond, audioOnly |-> FALSE, err |-> TRUE]

LoadDownloadConfigFromMsg(m) ==
    LET args     == Split(m, " ")
        videoUrl == UrlParse(args[1])
        argsLen  == Len(args)
    IN  IF videoUrl.err THEN CmdFail
        ELSE IF argsLen = 1
        THEN [url |-> videoUrl.url, startSecond |-> InvalidVideoSecond,
              endSecond |-> InvalidVideoSecond, audioOnly |-> FALSE,
              err |-> FALSE]
        ELSE
        LET secondArg == ToLower(args[2])
        IN  IF secondArg = AudioWord
            THEN [url |-> videoUrl.url, startSecond |-> InvalidVideoSecond,
                  endSecond |-> InvalidVideoSecond, audioOnly |-> TRUE,
                  err |-> FALSE]
            ELSE
            LET se == ParseStartEndSeconds(secondArg)
            IN  IF se.err THEN CmdFail
                ELSE IF argsLen = 2
                THEN [url |-> videoUrl.url, startSecond |-> se.startSecond,
                      endSecond |-> se.endSecond, audioOnly |-> FALSE,
                      err |-> FALSE]
                ELSE IF argsLen > 3 THEN CmdFail
                ELSE IF args[3] # AudioWord THEN CmdFail
                ELSE [url |-> videoUrl.url, startSecond |-> se.startSecond,
                      endSecond |-> se.endSecond, audioOnly |-> TRUE,
                      err |-> FALSE]

----------------------------------------------------------------------------
(* AccessPolicy *)

\* The range loop of UserIsAuthorized, from index i on.
RECURSIVE FoundFrom(_, _, _)
FoundFrom(id, ids, i) ==
    IF i > Len(ids) THEN FALSE
    ELSE IF id = ids[i] THEN TRUE
    ELSE FoundFrom(id, ids, i + 1)

\* UserIsAuthorized without the empty-list rule: a fault seeded to show that
\* C8_AllowList depends on it.
UserIsAuthorizedNoEmpty(id, ids) == FoundFrom(id, ids, 1)

UserIsAuthorized(id, ids) ==
    IF Len(ids) = 0 THEN TRUE ELSE FoundFrom(id, ids, 1)

----------------------------------------------------------------------------
(* Inputs *)

MaxPad == 1        \* leading zeros put before a number
MaxSegs == 4       \* segments of the longest spot
MaxTokens == 4     \* tokens of the longest command line
MaxAllow == 3      \* entries of the longest allow-list
MaxId == 3         \* caller ids are 1..MaxId
MaxRequests == 2   \* updates the main loop takes
MaxRandom == 2     \* random strings os.CreateTemp draws from

RECURSIVE Zeros(_)
Zeros(k) == IF k = 0 THEN <<>> ELSE <<"0">> \o Zeros(k - 1)

\* The ways of writing the numbers of vals: plain or with leading zeros.
NumTexts(vals) == {Zeros(k) \o Sprint(v) : v \in vals, k \in 0..MaxPad}

SegVals == {0, 7, 11, 12, 59, 60}

JunkTexts == {<<"+", "5">>, <<"-", "5">>, <<"5", "x">>, <<>>}

PlainTexts == {<<"5">>, <<"1", "0">>}

\* Spots of n segments, each taken from texts.
SpotsOver(texts, n) == {Join(p, ":") : p \in [1..n -> texts]}

\* Spots of n plain segments but for one, taken from texts.
OneRich(texts, n) ==
    {Join([p EXCEPT ![i] = t], ":") :
        p \in [1..n -> PlainTexts], i \in 1..n, t \in texts}

RichSpots ==
    UNION {OneRich(NumTexts(SegVals) \cup JunkTexts, n) : n \in 2..MaxSegs}

PlainSpots == SpotsOver(PlainTexts, 2) \cup SpotsOver(PlainTexts, 3)

ShortSpots == SpotsOver(NumTexts({0, 7, 59, 60}), 2)

SpanOf(l, r) == l \o <<"-">> \o r

Spans ==
    {SpanOf(l, r) : l \in RichSpots, r \in PlainSpots}
    \cup {SpanOf(l, r) : l \in PlainSpots, r \in RichSpots}
    \cup {SpanOf(l, r) : l \in ShortSpots, r \in ShortSpots}
    \cup {<<"x">> \o SpanOf(l, r) : l \in PlainSpots, r \in PlainSpots}
    \cup {SpanOf(l, r) \o <<"x">> : l \in PlainSpots, r \in PlainSpots}
    \cup PlainSpots

NoSpanRet == [err |-> FALSE, startSecond |-> 0, endSecond |-> 0]
NoCmdRet ==
    [url |-> EmptyURL, startSecond |-> 0, endSecond |-> 0,
     audioOnly |-> FALSE, err |-> FALSE]
NoRet == [path |-> <<>>, err |-> FALSE]
NoCutArgs == <<>>

\* The variables the pipeline owns, before any request.
PipelineIdle ==
    /\ nreq = 0
    /\ fs = {}
    /\ plans = <<>>
    /\ videoFilename = <<>>
    /\ planned = FALSE
    /\ downloaded = FALSE
    /\ dlCalls = 0
    /\ cutCalls = 0
    /\ cutArgs = NoCutArgs
    /\ ytdlpArgs = <<>>
    /\ ret = NoRet

PipelineVars ==
    <<nreq, fs, plans, videoFilename, planned, downloaded, dlCalls, cutCalls,
      cutArgs, ytdlpArgs, ret>>

----------------------------------------------------------------------------
(* ParseStartEndSeconds on its own *)

InitSpan ==
    /\ pc = "call"
    /\ span \in Spans
    /\ spanRet = NoSpanRet
    /\ msg = <<>>
    /\ cmdRet = NoCmdRet
    /\ userId = 1
    /\ authorizedUserIds = <<>>
    /\ authRet = FALSE
    /\ PipelineIdle

CallParseStartEndSeconds ==
    /\ pc = "call"
    /\ spanRet' = ParseStartEndSeconds(span)
    /\ pc' = "ret"
    /\ UNCHANGED <<span, msg, cmdRet, userId, authorizedUserIds, authRet>>
    /\ UNCHANGED PipelineVars

NextSpan == CallParseStartEndSeconds

SpecSpan == InitSpan /\ [][NextSpan]_vars

----------------------------------------------------------------------------
(* LoadDownloadConfigFromMsg on its own *)

UrlTexts == {<<"x">>, <<"h", ":", "x">>, <<":", "x">>, <<"1", ":", "x">>, <<>>}

AudioTexts ==
    {AudioWord, <<"A", "U", "D", "I", "O">>, <<"A", "u", "d", "i", "o">>,
     <<"a", "u", "d", "i">>}

SpanTexts ==
    {<<"5", ":", "1", "0", "-", "1", "0", ":", "5">>,
     <<"5", ":", "1", "0", "-", "5", ":", "1", "0">>,
     <<"0", ":", "0", "5", "-", "1", ":", "0", ":", "0">>,
     <<"5", ":", "6", "0", "-", "1", "0", ":", "5">>,
     <<>>}

SecondTexts == AudioTexts \cup SpanTexts

ThirdTexts == {AudioWord, <<"A", "u", "d", "i", "o">>, <<"x">>, <<>>}

\* The token lists of n tokens: a URL text, a second text, third texts.
RECURSIVE TokenLists(_)
TokenLists(n) ==
    IF n = 1 THEN {<<u>> : u \in UrlTexts}
    ELSE IF n = 2 THEN {<<u, t>> : u \in UrlTexts, t \in SecondTexts}
    ELSE {Append(l, t) : l \in TokenLists(n - 1), t \in ThirdTexts}

\* The command lines of n tokens.
Lines(n) == {Join(t, " ") : t \in TokenLists(n)}

Msgs == UNION {Lines(n) : n \in 1..MaxTokens}

InitCmd ==
    /\ pc = "call"
    /\ span = <<>>
    /\ spanRet = NoSpanRet
    /\ msg \in Msgs
    /\ cmdRet = NoCmdRet
    /\ userId = 1
    /\ authorizedUserIds = <<>>
    /\ authRet = FALSE
    /\ PipelineIdle

CallLoadDownloadConfigFromMsg ==
    /\ pc = "call"
    /\ cmdRet' = LoadDownloadConfigFromMsg(msg)
    /\ pc' = "ret"
    /\ UNCHANGED <<span, spanRet, msg, userId, authorizedUserIds, authRet>>
    /\ UNCHANGED PipelineVars

NextCmd == CallLoadDownloadConfigFromMsg

SpecCmd == InitCmd /\ [][NextCmd]_vars

----------------------------------------------------------------------------
(* UserIsAuthorized on its own *)

Ids == 1..MaxId

AllowLists == UNION {[1..n -> Ids] : n \in 0..MaxAllow}

InitAuth ==
    /\ pc = "call"
    /\ span = <<>>
    /\ spanRet = NoSpanRet
    /\ msg = <<>>
    /\ cmdRet = NoCmdRet
    /\ userId \in Ids \cup {MaxId + 1}
    /\ authorizedUserIds \in AllowLists
    /\ authRet = FALSE
    /\ PipelineIdle

CallUserIsAuthorized ==
    /\ pc = "call"
    /\ authRet' = UserIsAuthorized(userId, authorizedUserIds)
    /\ pc' = "ret"
    /\ UNCHANGED <<span, spanRet, msg, cmdRet, userId, authorizedUserIds>>
    /\ UNCHANGED PipelineVars

NextAuth == CallUserIsAuthorized

SpecAuth == InitAuth /\ [][NextAuth]_vars

----------------------------------------------------------------------------
(* DownloadPlanner and PipelineOrchestrator, driven by main's loop *)

\* URL.String for the URLs of UrlParse: the scheme, a colon, the rest.
UrlString(u) ==
    IF u.Scheme # <<>> THEN u.Scheme \o <<":">> \o u.Rest ELSE u.Rest

\* The name os.CreateTemp("", "gatonaranja.*.mp4") makes of random string r.
TempName(r) == <<"gatonaranja", ".">> \o r \o <<".", "m", "p", "4">>

RandomStrings == {Sprint(i) : i \in 1..MaxRandom}

\* filepath.Ext: the suffix from the last dot on, empty without a dot.
Ext(path) ==
    IF \A i \in 1..Len(path) : path[i] # "." THEN <<>>
    ELSE LET k == CHOOSE i \in 1..Len(path) :
                      path[i] = "." /\ \A j \in (i + 1)..Len(path) : path[j] # "."
         IN  SubSeq(path, k, Len(path))

\* BuildYtdlpCmd past os.Remove: the output filename for temp file name f.
OutputFilename(f, audioOnly) ==
    IF audioOnly THEN SubSeq(f, 1, Len(f) - 1) \o <<"3">> ELSE f

\* BuildYtdlpCmd's argument list.
YtdlpArgs(videoUrl, audioOnly, outputFilename) ==
    (IF audioOnly THEN <<<<"-x">>, <<"--audio-format">>, <<"mp3">>>> ELSE <<>>)
    \o <<<<"-f">>, <<"18">>, videoUrl>>
    \o <<<<"-o">>, outputFilename>>

\* The file the downloader writes: the value of its -o flag.
OutputOf(args) == args[(CHOOSE i \in 1..Len(args) : args[i] = <<"-o">>) + 1]

FinalVideoFilename(name, audioOnly) ==
    LET videoFilenameExt == Ext(name)
        stem == SubSeq(name, 1, Len(name) - Len(videoFilenameExt))
    IN  stem \o <<"-", "c", "u", "t">>
             \o (IF audioOnly THEN <<".", "m", "p", "3">> ELSE videoFilenameExt)

\* The cutter's argument list with endSecond as the duration: a fault seeded
\* to show that C6_CutOfSpan depends on the -t argument.
CutArgsEnd(name, startSecond, endSecond, audioOnly) ==
    <<<<"-ss">>, Sprint(startSecond), <<"-i">>, name, <<"-t">>,
      Sprint(endSecond), FinalVideoFilename(name, audioOnly)>>

\* The cutter's argument list, after the executable.
CutArgs(name, startSecond, endSecond, audioOnly) ==
    <<<<"-ss">>, Sprint(startSecond), <<"-i">>, name, <<"-t">>,
      Sprint(endSecond - startSecond), FinalVideoFilename(name, audioOnly)>>

Failure == [path |-> <<>>, err |-> TRUE]

Cmds ==
    {Join(t, " ") :
        t \in {<<<<"x">>>>,
               <<<<"h", ":", "x">>, <<"A", "u", "d", "i", "o">>>>,
               <<<<"x">>, <<"5", ":", "1", "0", "-", "1", "0", ":", "5">>>>,
               <<<<"x">>, <<"5", ":", "1", "0", "-", "1", "0", ":", "5">>, AudioWord>>,
               <<<<"x">>, <<"5", ":", "1", "0", "-", "5", ":", "1", "0">>>>,
               <<<<":", "x">>>>}}

Init ==
    /\ pc = "recv"
    /\ span = <<>>
    /\ spanRet = NoSpanRet
    /\ msg = <<>>
    /\ cmdRet = NoCmdRet
    /\ userId = 1
    /\ authorizedUserIds \in {l \in AllowLists : Len(l) <= 1}
    /\ authRet = FALSE
    /\ PipelineIdle

\* main.go:286-290: the sender is not on the allow-list.
RejectUpdate(id, text) ==
    /\ pc = "recv" /\ nreq < MaxRequests
    /\ ~UserIsAuthorized(id, authorizedUserIds)
    /\ userId' = id /\ msg' = text /\ nreq' = nreq + 1
    /\ authRet' = FALSE
    /\ UNCHANGED <<pc, span, spanRet, cmdRet, authorizedUserIds, fs, plans,
                   videoFilename, planned, downloaded, dlCalls, cutCalls,
                   cutArgs, ytdlpArgs, ret>>

\* main.go:298-305: the text is no command.
RefuseCommand(id, text) ==
    /\ pc = "recv" /\ nreq < MaxRequests
    /\ UserIsAuthorized(id, authorizedUserIds)
    /\ LoadDownloadConfigFromMsg(text).err
    /\ userId' = id /\ msg' = text /\ nreq' = nreq + 1
    /\ authRet' = TRUE
    /\ cmdRet' = LoadDownloadConfigFromMsg(text)
    /\ UNCHANGED <<pc, span, spanRet, authorizedUserIds, fs, plans,
                   videoFilename, planned, downloaded, dlCalls, cutCalls,
                   cutArgs, ytdlpArgs, ret>>

\* main.go:306: DownloadVideo is entered.
StartDownload(id, text) ==
    /\ pc = "recv" /\ nreq < MaxRequests
    /\ UserIsAuthorized(id, authorizedUserIds)
    /\ ~LoadDownloadConfigFromMsg(text).err
    /\ userId' = id /\ msg' = text /\ nreq' = nreq + 1
    /\ authRet' = TRUE
    /\ cmdRet' = LoadDownloadConfigFromMsg(text)
    /\ pc' = "Planning"
    /\ videoFilename' = <<>> /\ ytdlpArgs' = <<>> /\ cutArgs' = NoCutArgs
    /\ planned' = FALSE /\ downloaded' = FALSE
    /\ dlCalls' = 0 /\ cutCalls' = 0
    /\ ret' = NoRet
    /\ UNCHANGED <<span, spanRet, authorizedUserIds, fs, plans>>

HandleUpdate ==
    \E id \in Ids, text \in Cmds :
        \/ RejectUpdate(id, text)
        \/ RefuseCommand(id, text)
        \/ StartDownload(id, text)

\* DownloadVideo returns "", err.
Fail ==
    /\ pc' = "Failed"
    /\ ret' = Failure

\* BuildYtdlpCmd fails: yt-dlp is not found, or os.CreateTemp fails.
PlanFails ==
    /\ pc = "Planning"
    /\ Fail
    /\ UNCHANGED <<span, spanRet, msg, cmdRet, userId, authorizedUserIds,
                   authRet, nreq, fs, plans, videoFilename, planned,
                   downloaded, dlCalls, cutCalls, cutArgs, ytdlpArgs>>

\* os.CreateTemp made the file of random string r, and os.Remove failed.
PlanRemoveFails(r) ==
    /\ pc = "Planning"
    /\ TempName(r) \notin fs
    /\ fs' = fs \cup {TempName(r)}
    /\ Fail
    /\ UNCHANGED <<span, spanRet, msg, cmdRet, userId, authorizedUserIds,
                   authRet, nreq, plans, videoFilename, planned, downloaded,
                   dlCalls, cutCalls, cutArgs, ytdlpArgs>>

\* BuildYtdlpCmd returns: os.CreateTemp drew r, a name no file has, and the
\* file it made is removed again.
PlanReturns(r) ==
    /\ pc = "Planning"
    /\ TempName(r) \notin fs
    /\ LET outputFilename == OutputFilename(TempName(r), cmdRet.audioOnly)
       IN  /\ videoFilename' = outputFilename
           /\ ytdlpArgs' = YtdlpArgs(UrlString(cmdRet.url), cmdRet.audioOnly,
                                     outputFilename)
           /\ plans' = Append(plans, outputFilename)
    /\ planned' = TRUE
    /\ pc' = "Downloading"
    /\ UNCHANGED <<span, spanRet, msg, cmdRet, userId, authorizedUserIds,
                   authRet, nreq, fs, downloaded, dlCalls, cutCalls, cutArgs,
                   ret>>

BuildYtdlpCmd ==
    \/ PlanFails
    \/ \E r \in RandomStrings : PlanRemoveFails(r) \/ PlanReturns(r)

\* A failed download that falls through to the cut: a fault seeded to show
\* that C10_StageOrder depends on the early return of main.go:194.
DownloadFailsGoesOn ==
    /\ pc = "Downloading"
    /\ dlCalls' = dlCalls + 1
    /\ pc' = "Cutting"
    /\ UNCHANGED <<span, spanRet, msg, cmdRet, userId, authorizedUserIds,
                   authRet, nreq, fs, plans, videoFilename, planned,
                   downloaded, cutCalls, cutArgs, ytdlpArgs, ret>>

\* downloadCmd.Run() returns an error.
DownloadFails ==
    /\ pc = "Downloading"
    /\ dlCalls' = dlCalls + 1
    /\ Fail
    /\ UNCHANGED <<span, spanRet, msg, cmdRet, userId, authorizedUserIds,
                   authRet, nreq, fs, plans, videoFilename, planned,
                   downloaded, cutCalls, cutArgs, ytdlpArgs>>

\* downloadCmd.Run() returns nil: the downloader wrote its output file.
\* main.go:196 then picks the cut or the return.
DownloadReturns ==
    /\ pc = "Downloading"
    /\ dlCalls' = dlCalls + 1
    /\ downloaded' = TRUE
    /\ fs' = fs \cup {OutputOf(ytdlpArgs)}
    /\ IF /\ cmdRet.startSecond # InvalidVideoSecond
          /\ cmdRet.endSecond # InvalidVideoSecond
       THEN pc' = "Cutting" /\ ret' = ret
       ELSE pc' = "Done" /\ ret' = [path |-> videoFilename, err |-> FALSE]
    /\ UNCHANGED <<span, spanRet, msg, cmdRet, userId, authorizedUserIds,
                   authRet, nreq, plans, videoFilename, planned, cutCalls,
                   cutArgs, ytdlpArgs>>

Download == DownloadFails \/ DownloadReturns

\* CutVideo: ffmpeg is not found.
CutNotFound ==
    /\ pc = "Cutting"
    /\ Fail
    /\ UNCHANGED <<span, spanRet, msg, cmdRet, userId, authorizedUserIds,
                   authRet, nreq, fs, plans, videoFilename, planned,
                   downloaded, dlCalls, cutCalls, cutArgs, ytdlpArgs>>

\* CutVideo: cutCmd.Run() returns an error.
CutFails ==
    /\ pc = "Cutting"
    /\ cutCalls' = cutCalls + 1
    /\ cutArgs' = CutArgs(videoFilename, cmdRet.startSecond, cmdRet.endSecond,
                          cmdRet.audioOnly)
    /\ Fail
    /\ UNCHANGED <<span, spanRet, msg, cmdRet, userId, authorizedUserIds,
                   authRet, nreq, fs, plans, videoFilename, planned,
                   downloaded, dlCalls, ytdlpArgs>>

\* CutVideo: cutCmd.Run() returns nil, the cutter wrote the final file.
CutReturns ==
    /\ pc = "Cutting"
    /\ cutCalls' = cutCalls + 1
    /\ cutArgs' = CutArgs(videoFilename, cmdRet.startSecond, cmdRet.endSecond,
                          cmdRet.audioOnly)
    /\ LET finalVideoFilename ==
               FinalVideoFilename(videoFilename, cmdRet.audioOnly)
       IN  /\ fs' = fs \cup {finalVideoFilename}
           /\ videoFilename' = finalVideoFilename
           /\ ret' = [path |-> finalVideoFilename, err |-> FALSE]
    /\ pc' = "Done"
    /\ UNCHANGED <<span, spanRet, msg, cmdRet, userId, authorizedUserIds,
                   authRet, nreq, plans, planned, downloaded, dlCalls,
                   ytdlpArgs>>

CutVideo == CutNotFound \/ CutFails \/ CutReturns

\* main.go:314-326: the file is sent, then os.Remove(videoFilename), whose
\* failure is logged.
Deliver ==
    /\ pc = "Done"
    /\ fs' \in {fs \ {ret.path}, fs}
    /\ pc' = "recv"
    /\ UNCHANGED <<span, spanRet, msg, cmdRet, userId, authorizedUserIds,
                   authRet, nreq, plans, videoFilename, planned, downloaded,
                   dlCalls, cutCalls, cutArgs, ytdlpArgs, ret>>

\* main.go:307-313: the failure is logged and reported.
ReportFailure ==
    /\ pc = "Failed"
    /\ pc' = "recv"
    /\ UNCHANGED <<span, spanRet, msg, cmdRet, userId, authorizedUserIds,
                   authRet, nreq, fs, plans, videoFilename, planned,
                   downloaded, dlCalls, cutCalls, cutArgs, ytdlpArgs, ret>>

Next ==
    \/ HandleUpdate
    \/ BuildYtdlpCmd
    \/ Download
    \/ CutVideo
    \/ Deliver
    \/ ReportFailure

Spec == Init /\ [][Next]_vars

----------------------------------------------------------------------------
(* Properties *)

\* How the grammar [H:]M:S reads a spot text: its segments, first to last.
SegmentsOf(t) == Split(t, ":")

IsWritten(t, n) ==
    /\ Len(SegmentsOf(t)) = n
    /\ \A i \in 1..n : IsSegment(SegmentsOf(t)[i])

\* M:S with M <= 59 and S <= 59, and the second it names.
IsMS(t) ==
    /\ IsWritten(t, 2)
    /\ DigitsValue(SegmentsOf(t)[1]) <= 59
    /\ DigitsValue(SegmentsOf(t)[2]) <= 59

MSSecond(t) ==
    DigitsValue(SegmentsOf(t)[1]) * 60 + DigitsValue(SegmentsOf(t)[2])

\* H:M:S with M <= 59 and S <= 59, its hours, and the second it names.
IsHMS(t) ==
    /\ IsWritten(t, 3)
    /\ DigitsValue(SegmentsOf(t)[2]) <= 59
    /\ DigitsValue(SegmentsOf(t)[3]) <= 59

HoursOf(t) == DigitsValue(SegmentsOf(t)[1])

HMSSecond(t) ==
    HoursOf(t) * 3600 + DigitsValue(SegmentsOf(t)[2]) * 60
        + DigitsValue(SegmentsOf(t)[3])

Tokens == Split(msg, " ")

\* C1: a line whose token 1 is `audio`, whatever its case, is accepted only
\* when it has exactly 2 tokens, and every line of more than 3 tokens fails.
C1_TokenCountRules ==
    pc = "ret" =>
        /\ (Len(Tokens) >= 2 /\ ToLower(Tokens[2]) = AudioWord /\ ~cmdRet.err)
               => Len(Tokens) = 2
        /\ Len(Tokens) > 3 => cmdRet.err

\* C2: a spot written H:M:S with M <= 59 and S <= 59 makes the parse fail
\* when H >= 12, and resolves to H*3600 + M*60 + S when H <= 11.
C2_HoursFirst ==
    pc = "ret" =>
        LET p == Split(span, "-")
        IN  Len(p) = 2 =>
                \A k \in 1..2 :
                    IsHMS(p[k]) =>
                        /\ HoursOf(p[k]) >= 12 => spanRet.err
                        /\ (HoursOf(p[k]) <= 11 /\ ~spanRet.err) =>
                               (IF k = 1 THEN spanRet.startSecond
                                ELSE spanRet.endSecond) = HMSSecond(p[k])

\* C3: every text that is not exactly spot-spot, each spot 2 or 3 segments of
\* 1 to 2 digits, is rejected.
C3_OnlyTheShape ==
    (pc = "ret" /\ ~IsSpanPattern(span)) => spanRet.err

\* C4: "M1:S1-M2:S2" with all four numbers at most 59 and M1*60+S1 < M2*60+S2
\* parses, to startSecond = M1*60+S1 and endSecond = M2*60+S2.
C4_MinutesSeconds ==
    pc = "ret" =>
        LET p == Split(span, "-")
        IN  (/\ Len(p) = 2
             /\ IsMS(p[1]) /\ IsMS(p[2])
             /\ MSSecond(p[1]) < MSSecond(p[2]))
                => spanRet = [err |-> FALSE, startSecond |-> MSSecond(p[1]),
                              endSecond |-> MSSecond(p[2])]

C4_Witness ==
    /\ pc = "ret"
    /\ span = <<"0", "7", ":", "5", "9", "-", "5", "9", ":", "0">>
    /\ spanRet = [err |-> FALSE, startSecond |-> 479, endSecond |-> 3540]

\* C5: a span whose spots resolve to startSecond >= endSecond is rejected,
\* and a parse that returns without error has 0 <= startSecond < endSecond.
C5_StartBeforeEnd ==
    pc = "ret" =>
        /\ ~spanRet.err =>
               (0 <= spanRet.startSecond /\ spanRet.startSecond < spanRet.endSecond)
        /\ LET p == Split(span, "-")
           IN  (/\ Len(p) = 2
                /\ ~Spot2Second(p[1]).err /\ ~Spot2Second(p[2]).err
                /\ Spot2Second(p[1]).val >= Spot2Second(p[2]).val)
                   => (spanRet.err /\ spanRet.startSecond = 0
                                   /\ spanRet.endSecond = 0)

C5_Witness ==
    /\ pc = "ret"
    /\ spanRet.err
    /\ IsSpanPattern(span)
    /\ LET p == Split(span, "-")
       IN  /\ ~Spot2Second(p[1]).err /\ ~Spot2Second(p[2]).err
           /\ Spot2Second(p[1]).val = Spot2Second(p[2]).val

\* The request of the running pipeline carries a span.
HasSpan == cmdRet.startSecond # InvalidVideoSecond

\* C6 as stated: after a successful download a request with a span has the
\* cutter invoked exactly once, seeking to startSecond, reading the file the
\* downloader wrote, for endSecond - startSecond seconds, and the cut file's
\* path is returned; a request without a span never has the cutter invoked
\* and has the plan's output path returned.
C6_AsStated ==
    (downloaded /\ pc \in {"Done", "Failed"}) =>
        IF HasSpan
        THEN /\ cutCalls = 1
             /\ Atoi(cutArgs[2]) = [err |-> FALSE, val |-> cmdRet.startSecond]
             /\ cutArgs[4] = OutputOf(ytdlpArgs)
             /\ Atoi(cutArgs[6]) =
                    [err |-> FALSE, val |-> cmdRet.endSecond - cmdRet.startSecond]
             /\ ret = [path |-> cutArgs[7], err |-> FALSE]
        ELSE /\ cutCalls = 0
             /\ ret = [path |-> plans[Len(plans)], err |-> FALSE]

\* C6 amended: after a successful download a request with a span has the
\* cutter invoked at most once, and exactly once unless the cutter is not
\* found; an invocation seeks to startSecond, reads the file the downloader
\* wrote, and lasts endSecond - startSecond seconds; when the cutter exits
\* successfully the cut file's path is returned, otherwise the run returns
\* an error and an empty path. A request without a span never has the cutter
\* invoked and has the plan's output path returned.
C6_CutOfSpan ==
    (downloaded /\ pc \in {"Done", "Failed"}) =>
        IF HasSpan
        THEN /\ cutCalls <= 1
             /\ cutCalls = 1 =>
                    /\ Atoi(cutArgs[2]) =
                           [err |-> FALSE, val |-> cmdRet.startSecond]
                    /\ cutArgs[4] = OutputOf(ytdlpArgs)
                    /\ OutputOf(ytdlpArgs) \in fs
                    /\ Atoi(cutArgs[6]) =
                           [err |-> FALSE,
                            val |-> cmdRet.endSecond - cmdRet.startSecond]
             /\ pc = "Done" =>
                    /\ cutCalls = 1
                    /\ ret = [path |-> cutArgs[7], err |-> FALSE]
                    /\ cutArgs[7] \in fs
             /\ pc = "Failed" => ret = Failure
        ELSE /\ cutCalls = 0
             /\ pc = "Done"
             /\ ret = [path |-> plans[Len(plans)], err |-> FALSE]

C6_Witness ==
    /\ pc = "Done"
    /\ HasSpan
    /\ cmdRet.audioOnly
    /\ cutCalls = 1
    /\ ret.path = cutArgs[7]

\* C7: no two plans return the same output path.
C7_PlansDistinct ==
    \A i, j \in 1..Len(plans) : i # j => plans[i] # plans[j]

\* C8: UserIsAuthorized is true for every caller when the allow-list is
\* empty, and otherwise exactly when the caller is among the list's entries.
C8_AllowList ==
    pc = "ret" =>
        authRet = (\/ Len(authorizedUserIds) = 0
                   \/ userId \in {authorizedUserIds[i] :
                                     i \in 1..Len(authorizedUserIds)})

C8_Witness ==
    /\ pc = "ret"
    /\ authorizedUserIds = <<2, 2, 1>>
    /\ userId = 1
    /\ authRet

\* C9: an error return of LoadDownloadConfigFromMsg has an empty URL, both
\* seconds -1 and audioOnly false; a successful return has both seconds -1 or
\* 0 <= startSecond < endSecond.
C9_WellFormedRequest ==
    pc = "ret" =>
        /\ cmdRet.err =>
               /\ cmdRet.url = EmptyURL
               /\ cmdRet.startSecond = InvalidVideoSecond
               /\ cmdRet.endSecond = InvalidVideoSecond
               /\ ~cmdRet.audioOnly
        /\ ~cmdRet.err =>
               \/ /\ cmdRet.startSecond = InvalidVideoSecond
                  /\ cmdRet.endSecond = InvalidVideoSecond
               \/ /\ 0 <= cmdRet.startSecond
                  /\ cmdRet.startSecond < cmdRet.endSecond

C9_Witness ==
    /\ pc = "ret"
    /\ cmdRet.err
    /\ Len(Tokens) = 3
    /\ ~UrlParse(Tokens[1]).err
    /\ ~ParseStartEndSeconds(ToLower(Tokens[2])).err

\* C10: the downloader runs at most once and only after planning succeeded,
\* the cutter at most once and only after the downloader succeeded, a run
\* that ends Done had every stage it needed succeed, and a run that ends
\* Failed returns an error and an empty path with no later stage invoked.
C10_StageOrder ==
    /\ dlCalls <= 1 /\ cutCalls <= 1
    /\ dlCalls = 1 => planned
    /\ cutCalls = 1 => (downloaded /\ dlCalls = 1)
    /\ downloaded => (planned /\ dlCalls = 1)
    /\ pc = "Planning" => (~planned /\ dlCalls = 0 /\ cutCalls = 0)
    /\ pc = "Downloading" => (planned /\ dlCalls = 0 /\ cutCalls = 0)
    /\ pc = "Cutting" => (downloaded /\ cutCalls = 0)
    /\ pc = "Done" =>
           /\ downloaded
           /\ ~ret.err /\ ret.path # <<>>
           /\ cutCalls = (IF HasSpan THEN 1 ELSE 0)
    /\ pc = "Failed" =>
           /\ ret = Failure
           /\ ~planned => (dlCalls = 0 /\ cutCalls = 0)
           /\ ~downloaded => cutCalls = 0

C10_Witness ==
    /\ pc = "Failed"
    /\ downloaded
    /\ dlCalls = 1
    /\ cutCalls = 1

=============================================================================
